---- MODULE Spec2Model ----
(***************************************************************************)
(* PixArtM: event lifecycle and capture-slot accounting.                   *)
(*                                                                         *)
(* One event row is served by one backend, either the Firebase Cloud       *)
(* Functions (reserveCapture, reserveCaptureWithBuffer, confirmCapture,    *)
(* autoCleanup, manualCleanup) or the Supabase Edge Functions              *)
(* (reserve-capture, auto-cleanup) that replace them.                      *)
(*                                                                         *)
(* Time is counted in days and advances in steps of TickDays.  A          *)
(* Firestore transaction (runTransaction) is one atomic step.              *)
(* A Supabase handler is one step per awaited                              *)
(* database request, so that other invocations interleave between its      *)
(* read and its write.  A handler invocation is short-lived: the clock     *)
(* advances at most once while it is in flight.                            *)
(***************************************************************************)
EXTENDS Integers, FiniteSets, Sequences, TLC

\* ---------------------------------------------------------------- bounds
MaxPhotoLimit == 2
MaxTicks == 6
TickDays == 5
NumClients == 2
NumEvents == 2

\* ------------------------------------------------------ program constants
GalleryRetentionDays == 15
NoDate == -1
FirestoreBatchLimit == 500
StorageListLimit == 100

MaxCaptureCount == MaxPhotoLimit + 1

\* The clock advances TickDays days at a time, up to MaxNow.
MaxNow == MaxTicks * TickDays

StartDates == {0, TickDays}

EndDates == {TickDays}

Clients == 1..NumClients
EventIds == 1..NumEvents
Backends == {"firebase", "supabase"}

\* EventStatus, in lifecycle order
EventStatus == <<"draft", "active", "expired", "cleaned">>

StatusRank(s) == CHOOSE i \in 1..Len(EventStatus) : EventStatus[i] = s

\* ----------------------------------------------------------------- state
VARIABLES
    backend,    \* which backend serves the event
    clock,      \* the current day (what new Date() returns)
    event,      \* the event row / document
    inv,        \* per client: the reservation invocation in flight
    last,       \* the last response returned, and to which client
    cleanup,    \* the cleanup invocation in flight
    issued,     \* captureNumber -> number of successful reserveCapture responses carrying it
    rows,           \* cleanup batch: the events table, event id -> status and gallery_expires_at
    photos,         \* event id -> number of objects under the event's photo prefix
    zips,           \* event id -> whether the event's album.zip exists
    captures,       \* event id -> number of capture rows of the event
    cleanup_errors, \* the entries of cleanup_errors written by the current or last run
    cleanup_logs,   \* the entries of cleanup_logs written by the current or last run
    run,            \* the scheduled cleanup invocation
    hour,           \* ZIP generation: the current time in hours
    album,          \* the event row ZIP generation reads
    cloudCaptures,  \* the capture numbers of the event's cloud-uploaded capture rows
    albumZip,       \* the object zips/<event id>/album.zip
    zipLast,        \* the last ZIP generation request and its response
    page,           \* the camera page: its handleCapture call and its copy of the event
    device,         \* the number of photos the camera page saved to the device
    bucket,         \* the capture numbers under which the camera page uploaded a photo
    flight,         \* the requests in flight on the event's storage: a ZIP generation, photo uploads
    objects,        \* the photo objects of the event in the storage
    ui,             \* the camera page's capturing flag, as set and as rendered, and its capture flows
    cam,            \* useCamera: the hook's state, its closures and the MediaStreams
    gallery         \* useGallery: totalImages and selectedImage

batchVars == <<rows, photos, zips, captures, cleanup_errors, cleanup_logs, run>>

zipVars == <<hour, album, cloudCaptures, albumZip, zipLast>>

cameraVars == <<page, device, bucket>>

flightVars == <<flight, objects>>

hookVars == <<ui, cam, gallery>>

vars == <<backend, clock, event, inv, last, cleanup, issued, batchVars, zipVars, cameraVars, flightVars, hookVars>>

\* ------------------------------------------------------------- responses
NoResp == [success |-> FALSE, message |-> "", captureNumber |-> 0, status |-> "none", thrown |-> FALSE]

Failure(msg, st) == [success |-> FALSE, message |-> msg, captureNumber |-> 0, status |-> st, thrown |-> FALSE]

Thrown(msg) == [success |-> FALSE, message |-> msg, captureNumber |-> 0, status |-> "none", thrown |-> TRUE]

Success(n, st) == [success |-> TRUE, message |-> "", captureNumber |-> n, status |-> st, thrown |-> FALSE]

NullEvent == [status |-> "draft", capture_count |-> 0, reserved_count |-> 0, photo_limit |-> 0, start_date |-> 0, end_date |-> 0, gallery_expires_at |-> NoDate, totalCaptures |-> 0]

\* no capture_count read, as a set
NoRead == {}

\* pc: idle (no call in flight), expiring / updating (Supabase handler
\* between two requests).
IdleInv == [pc |-> "idle", ev |-> NullEvent, now |-> 0, ticked |-> FALSE]

Callable(p) == inv[p].pc = "idle"

IdleCleanup == [pc |-> "idle", ev |-> NullEvent, now |-> 0, ticked |-> FALSE]

\* read holds the capture_count the call read if it passed validation.
NoLast == [client |-> 0, op |-> "none", resp |-> NoResp, read |-> NoRead]

\* The call of client p returns resp.
Done(p, op, resp, read) == [client |-> p, op |-> op, resp |-> resp, read |-> read]

\* pc: idle (no run in flight; result, now and faulty are those of the last
\* run), loop (the per-event loop; pending holds the rows of the query not
\* yet processed).  event, thrown, swallowed and unlogged describe the last
\* step: the event it processed, whether a request failed with the failure
\* thrown out of the per-event body, whether a request failed without that,
\* and whether the write of the error entry or of the summary failed.  faulty: a request
\* of the run has failed.  again: the run started at the time the run before
\* it started; prevFaulty: faulty of the run before.
NoRun == [pc |-> "idle", now |-> NoDate, pending |-> {}, eventsProcessed |-> 0, eventsCleanedSuccess |-> 0, eventsCleanedFailed |-> 0, totalPhotosDeleted |-> 0, totalZipsDeleted |-> 0, result |-> "none", event |-> 0, thrown |-> FALSE, swallowed |-> FALSE, unlogged |-> FALSE, faulty |-> FALSE, again |-> FALSE, prevFaulty |-> FALSE]

NoRow == [status |-> "active", gallery_expires_at |-> NoDate]

\* The object album.zip: absent, or created at createdAt from the photos of
\* the captures in photos.
NoZip == [exists |-> FALSE, createdAt |-> NoDate, photos |-> {}]

NoUrl == [createdAt |-> NoDate, photos |-> {}]

\* No request yet.  fetched and unfetched: the captures whose photo the
\* per-photo loop of the request could and could not fetch.
NoZipLast == [token |-> "", found |-> FALSE, success |-> FALSE, code |-> "", message |-> "", url |-> NoUrl, expiresAt |-> NoDate, wrote |-> FALSE, fetched |-> {}, unfetched |-> {}]

NoAlbumRow == [status |-> "draft", gallery_token |-> "", has_cloud_album |-> FALSE, gallery_expires_at |-> NoDate]

\* No ZIP generation.
NoAlbum ==
    /\ hour = 0
    /\ album = NoAlbumRow
    /\ cloudCaptures = {}
    /\ albumZip = NoZip
    /\ zipLast = NoZipLast

NoReservation == [success |-> FALSE, captureNumber |-> 0, status |-> "none"]

\* The camera page's copy of the event (getEventBySlug).
NoPageEvent == [status |-> "draft", inWindow |-> FALSE, captureCount |-> 0, photoLimit |-> 0, hasCloudAlbum |-> FALSE]

IdlePage == [pc |-> "idle", event |-> NoPageEvent, reservation |-> NoReservation, error |-> FALSE]

\* No request in flight: no ZIP generation past its checks, no upload started.
Landed == [zip |-> "idle", photos |-> {}, uploads |-> {}]

\* No request in flight and no photo object.
NoFlight ==
    /\ flight = Landed
    /\ objects = {}

\* The capture button before any click.
NoClicks == [capturing |-> FALSE, rendered |-> FALSE, flows |-> <<>>, reserveCalls |-> 0]

\* No MediaStream (null).
NoStream == 0

\* useCamera before its component is mounted.
NoCam == [mounted |-> FALSE, stream |-> NoStream, cleanupStream |-> NoStream, pending |-> {}, live |-> {}, requested |-> 0]

\* No selected image (null).
NoImage == -1

NoGallery == [totalImages |-> 1, selectedImage |-> NoImage]

\* No hook in use.
NoHooks ==
    /\ ui = NoClicks
    /\ cam = NoCam
    /\ gallery = NoGallery

\* No camera page.
NoCamera ==
    /\ page = IdlePage
    /\ device = 0
    /\ bucket = {}

\* No events to clean up.
EmptyStore ==
    /\ rows = [e \in EventIds |-> NoRow]
    /\ photos = [e \in EventIds |-> 0]
    /\ zips = [e \in EventIds |-> FALSE]
    /\ captures = [e \in EventIds |-> 0]
    /\ cleanup_errors = {}
    /\ cleanup_logs = {}
    /\ run = NoRun

\* --------------------------------------------------------------- Init
NewEvent(limit, start, end) == [status |-> "draft", capture_count |-> 0, reserved_count |-> 0, photo_limit |-> limit, start_date |-> start, end_date |-> end, gallery_expires_at |-> NoDate, totalCaptures |-> 0]

Init ==
    /\ backend \in Backends
    /\ clock = 0
    /\ \E limit \in 1..MaxPhotoLimit, start \in StartDates, end \in EndDates :
          event = NewEvent(limit, start, end)
    /\ inv = [p \in Clients |-> IdleInv]
    /\ last = NoLast
    /\ cleanup = IdleCleanup
    /\ issued = [n \in 1..MaxPhotoLimit |-> 0]
    /\ EmptyStore
    /\ NoAlbum
    /\ NoCamera
    /\ NoFlight
    /\ NoHooks

\* --------------------------------------------------------- environment
\* The operator deploys the draft event.
Deploy ==
    /\ event.status = "draft"
    /\ event' = [event EXCEPT !.status = "active"]
    /\ UNCHANGED <<backend, clock, inv, last, cleanup, issued, batchVars, zipVars, cameraVars, flightVars, hookVars>>

\* Time passes.  Invocations in flight see the clock change at most once.
Tick ==
    /\ clock + TickDays <= MaxNow
    /\ \A p \in Clients : Callable(p) \/ ~inv[p].ticked
    /\ cleanup.pc = "idle" \/ ~cleanup.ticked
    /\ run.pc = "idle"
    /\ clock' = clock + TickDays
    /\ inv' = [p \in Clients |-> IF Callable(p) THEN inv[p] ELSE [inv[p] EXCEPT !.ticked = TRUE]]
    /\ cleanup' = IF cleanup.pc = "idle" THEN cleanup ELSE [cleanup EXCEPT !.ticked = TRUE]
    /\ UNCHANGED <<backend, event, last, issued, batchVars, zipVars, cameraVars, flightVars, hookVars>>

Issue(op, resp) ==
    IF op = "reserve" /\ resp.success /\ resp.captureNumber \in DOMAIN issued
    THEN [issued EXCEPT ![resp.captureNumber] = IF @ < 2 THEN @ + 1 ELSE @]
    ELSE issued

\* ------------------------------------------- Supabase: reserve-capture
\* sbValidation without the status check.
sbValidation_NoStatus(ev, now) ==
    IF now < ev.start_date THEN "Event has not started yet"
    ELSE IF now > ev.end_date THEN "Event has ended"
    ELSE IF ev.capture_count >= ev.photo_limit THEN "Photo limit reached"
    ELSE "ok"

\* sbValidation with the limit check off by one (> for >=).
sbValidation_LimitOffByOne(ev, now) ==
    IF ev.status # "active" THEN "Event is not active"
    ELSE IF now < ev.start_date THEN "Event has not started yet"
    ELSE IF now > ev.end_date THEN "Event has ended"
    ELSE IF ev.capture_count > ev.photo_limit THEN "Photo limit reached"
    ELSE "ok"

\* The validation chain of the handler, on the row it read.
sbValidation(ev, now) ==
    IF ev.status # "active" THEN "Event is not active"
    ELSE IF now < ev.start_date THEN "Event has not started yet"
    ELSE IF now > ev.end_date THEN "Event has ended"
    ELSE IF ev.capture_count >= ev.photo_limit THEN "Photo limit reached"
    ELSE "ok"

\* select('*').eq('id', eventId).single(), then the validation chain on the
\* row read, with now = new Date(): the handler up to its next request.
sbFetch(p, found) ==
    /\ backend = "supabase"
    /\ Callable(p)
    /\ LET ev == event
           now == clock
           v == sbValidation(ev, now)
       IN  IF ~found
           THEN /\ last' = Done(p, "reserve", Failure("Event not found", "none"), NoRead)
                /\ inv' = inv
           ELSE CASE v = "Event is not active" ->
                        /\ last' = Done(p, "reserve", Failure(v, ev.status), NoRead)
                        /\ inv' = inv
                  [] v = "Event has not started yet" ->
                        /\ last' = Done(p, "reserve", Failure(v, "none"), NoRead)
                        /\ inv' = inv
                  [] v = "Event has ended" ->
                        /\ inv' = [inv EXCEPT ![p] = [IdleInv EXCEPT !.pc = "expiring", !.now = now]]
                        /\ last' = last
                  [] v = "Photo limit reached" ->
                        /\ last' = Done(p, "reserve", Failure(v, ev.status), NoRead)
                        /\ inv' = inv
                  [] OTHER ->
                        /\ inv' = [inv EXCEPT ![p] = [IdleInv EXCEPT !.pc = "updating", !.now = now, !.ev = ev]]
                        /\ last' = last
    /\ UNCHANGED <<backend, clock, event, cleanup, issued, batchVars, zipVars, cameraVars, flightVars, hookVars>>

\* update({status: 'expired', gallery_expires_at}).eq('id', eventId)
sbAutoExpire(p) ==
    /\ backend = "supabase"
    /\ inv[p].pc = "expiring"
    /\ event' = [event EXCEPT !.status = "expired", !.gallery_expires_at = inv[p].now + GalleryRetentionDays]
    /\ inv' = [inv EXCEPT ![p] = IdleInv]
    /\ last' = Done(p, "reserve", Failure("Event has ended", "none"), NoRead)
    /\ UNCHANGED <<backend, clock, cleanup, issued, batchVars, zipVars, cameraVars, flightVars, hookVars>>

\* sbShouldExpire off by one (> for >=).
sbShouldExpire_OffByOne(ev) == ev.capture_count + 1 > ev.photo_limit

sbShouldExpire(ev) == ev.capture_count + 1 >= ev.photo_limit

\* updateData applied to a row
sbUpdateData(row, ev, now) ==
    LET counted == [row EXCEPT !.capture_count = ev.capture_count + 1, !.totalCaptures = ev.totalCaptures + 1]
    IN  IF sbShouldExpire(ev)
        THEN [counted EXCEPT !.status = "expired", !.gallery_expires_at = now + GalleryRetentionDays]
        ELSE counted

\* sbUpdate as an increment of the stored counter without the
\* .eq('capture_count', ...) check.
sbUpdate_Increment(p, requestFails) ==
    /\ backend = "supabase"
    /\ inv[p].pc = "updating"
    /\ LET ev == inv[p].ev
           now == inv[p].now
           resp == IF requestFails
                   THEN Failure("Concurrent update conflict, please retry", "none")
                   ELSE Success(ev.capture_count + 1, IF sbShouldExpire(ev) THEN "expired" ELSE ev.status)
       IN  /\ event' = IF ~requestFails
                       THEN [sbUpdateData(event, ev, now) EXCEPT !.capture_count = event.capture_count + 1]
                       ELSE event
           /\ inv' = [inv EXCEPT ![p] = IdleInv]
           /\ last' = Done(p, "reserve", resp, {ev.capture_count})
           /\ issued' = Issue("reserve", resp)
    /\ UNCHANGED <<backend, clock, cleanup, batchVars, zipVars, cameraVars, flightVars, hookVars>>

\* sbUpdate with the row written also when the request is answered with an
\* error.
sbUpdate_WrittenOnError(p, requestFails) ==
    /\ backend = "supabase"
    /\ inv[p].pc = "updating"
    /\ LET ev == inv[p].ev
           now == inv[p].now
           resp == IF requestFails
                   THEN Failure("Concurrent update conflict, please retry", "none")
                   ELSE Success(ev.capture_count + 1, IF sbShouldExpire(ev) THEN "expired" ELSE ev.status)
       IN  /\ event' = IF event.capture_count = ev.capture_count
                       THEN sbUpdateData(event, ev, now)
                       ELSE event
           /\ inv' = [inv EXCEPT ![p] = IdleInv]
           /\ last' = Done(p, "reserve", resp, {ev.capture_count})
           /\ issued' = Issue("reserve", resp)
    /\ UNCHANGED <<backend, clock, cleanup, batchVars, zipVars, cameraVars, flightVars, hookVars>>

\* update(updateData).eq('id', eventId).eq('capture_count', event.capture_count):
\* the row is written only if the filter matches it; a filter that matches no
\* row is not an error of the request, updateError is set only when the
\* request itself fails.
sbUpdate(p, requestFails) ==
    /\ backend = "supabase"
    /\ inv[p].pc = "updating"
    /\ LET ev == inv[p].ev
           now == inv[p].now
           resp == IF requestFails
                   THEN Failure("Concurrent update conflict, please retry", "none")
                   ELSE Success(ev.capture_count + 1, IF sbShouldExpire(ev) THEN "expired" ELSE ev.status)
       IN  /\ event' = IF ~requestFails /\ event.capture_count = ev.capture_count
                       THEN sbUpdateData(event, ev, now)
                       ELSE event
           /\ inv' = [inv EXCEPT ![p] = IdleInv]
           /\ last' = Done(p, "reserve", resp, {ev.capture_count})
           /\ issued' = Issue("reserve", resp)
    /\ UNCHANGED <<backend, clock, cleanup, batchVars, zipVars, cameraVars, flightVars, hookVars>>

\* --------------------------------- Supabase: auto-cleanup (event row)
\* select('*').eq('status', 'expired').lt('gallery_expires_at', now)
sbCleanupQuery ==
    /\ backend = "supabase"
    /\ cleanup.pc = "idle"
    /\ event.status = "expired"
    /\ event.gallery_expires_at # NoDate
    /\ event.gallery_expires_at < clock
    /\ cleanup' = [pc |-> "cleaning", ev |-> event, now |-> clock, ticked |-> FALSE]
    /\ UNCHANGED <<backend, clock, event, inv, last, issued, batchVars, zipVars, cameraVars, flightVars, hookVars>>

\* update({status: 'cleaned'}).eq('id', event.id)
sbCleanupEvent ==
    /\ backend = "supabase"
    /\ cleanup.pc = "cleaning"
    /\ event' = [event EXCEPT !.status = "cleaned"]
    /\ cleanup' = IdleCleanup
    /\ UNCHANGED <<backend, clock, inv, last, issued, batchVars, zipVars, cameraVars, flightVars, hookVars>>

\* ------------------------------------------- Firebase: utils/validation
isEventActive(ev, now) == ev.status = "active" /\ now >= ev.start_date /\ now <= ev.end_date

hasReachedLimit(ev) == ev.capture_count >= ev.photo_limit

hasAvailableSlots(ev) == ev.capture_count + ev.reserved_count < ev.photo_limit

validateCapture(ev, now) ==
    IF ev.status = "cleaned" THEN "Event has been cleaned up"
    ELSE IF ev.status = "expired" THEN "Event has expired"
    ELSE IF ~isEventActive(ev, now)
         THEN (IF now < ev.start_date THEN "Event has not started yet" ELSE "Event has ended")
    ELSE IF hasReachedLimit(ev) THEN "Photo limit reached"
    ELSE IF ~hasAvailableSlots(ev) THEN "No available slots (some are reserved)"
    ELSE "ok"

shouldExpireEvent(ev, now) ==
    IF ev.status # "active" THEN FALSE
    ELSE now > ev.end_date \/ hasReachedLimit(ev)

shouldCleanGallery_AnyDate(ev, now) == ev.status = "expired"

shouldCleanGallery(ev, now) ==
    IF ev.status # "expired" THEN FALSE
    ELSE ev.gallery_expires_at # NoDate /\ now > ev.gallery_expires_at

\* The update of reserveCapture and confirmCapture: the counters, then the
\* expiry decided on the updated event.
fbExpireIfDue(updated, now) ==
    IF shouldExpireEvent(updated, now)
    THEN [updated EXCEPT !.status = "expired", !.gallery_expires_at = now + GalleryRetentionDays]
    ELSE updated

\* ------------------------------------------- Firebase: reserveCapture
fbReserveCapture(p, found) ==
    /\ backend = "firebase"
    /\ Callable(p)
    /\ LET now == clock
           v == validateCapture(event, now)
           updated == fbExpireIfDue([event EXCEPT !.capture_count = @ + 1, !.totalCaptures = @ + 1], now)
           resp == IF ~found THEN Thrown("Event not found")
                   ELSE IF v # "ok" THEN Failure(v, event.status)
                   ELSE Success(event.capture_count + 1, updated.status)
       IN  /\ event' = IF found /\ v = "ok" THEN updated ELSE event
           /\ last' = Done(p, "reserve", resp, IF found /\ v = "ok" THEN {event.capture_count} ELSE NoRead)
           /\ issued' = Issue("reserve", resp)
    /\ UNCHANGED <<backend, clock, inv, cleanup, batchVars, zipVars, cameraVars, flightVars, hookVars>>

\* reserveCaptureWithBuffer returning capture_count + the old reserved_count.
fbReserveCaptureWithBuffer_OldCount(p, found) ==
    /\ backend = "firebase"
    /\ Callable(p)
    /\ LET now == clock
           v == validateCapture(event, now)
           newReservedCount == event.reserved_count + 1
           resp == IF ~found THEN Thrown("Event not found")
                   ELSE IF v # "ok" THEN Failure(v, event.status)
                   ELSE Success(event.capture_count + event.reserved_count, event.status)
       IN  /\ event' = IF found /\ v = "ok" THEN [event EXCEPT !.reserved_count = newReservedCount] ELSE event
           /\ last' = Done(p, "buffer", resp, IF found /\ v = "ok" THEN {event.capture_count} ELSE NoRead)
    /\ UNCHANGED <<backend, clock, inv, cleanup, issued, batchVars, zipVars, cameraVars, flightVars, hookVars>>

fbReserveCaptureWithBuffer(p, found) ==
    /\ backend = "firebase"
    /\ Callable(p)
    /\ LET now == clock
           v == validateCapture(event, now)
           newReservedCount == event.reserved_count + 1
           resp == IF ~found THEN Thrown("Event not found")
                   ELSE IF v # "ok" THEN Failure(v, event.status)
                   ELSE Success(event.capture_count + newReservedCount, event.status)
       IN  /\ event' = IF found /\ v = "ok" THEN [event EXCEPT !.reserved_count = newReservedCount] ELSE event
           /\ last' = Done(p, "buffer", resp, IF found /\ v = "ok" THEN {event.capture_count} ELSE NoRead)
    /\ UNCHANGED <<backend, clock, inv, cleanup, issued, batchVars, zipVars, cameraVars, flightVars, hookVars>>

Max(a, b) == IF a >= b THEN a ELSE b

\* No validation precedes the increment.  capture_count is capped at
\* MaxCaptureCount to keep the model finite.
fbConfirmCapture(p, found) ==
    /\ backend = "firebase"
    /\ Callable(p)
    /\ event.capture_count < MaxCaptureCount
    /\ LET now == clock
           updated == fbExpireIfDue([event EXCEPT !.capture_count = @ + 1,
                                                  !.reserved_count = Max(0, @ - 1),
                                                  !.totalCaptures = @ + 1], now)
           resp == IF ~found THEN Thrown("Event not found")
                   ELSE Success(event.capture_count + 1, updated.status)
       IN  /\ event' = IF found THEN updated ELSE event
           /\ last' = Done(p, "confirm", resp, IF found THEN {event.capture_count} ELSE NoRead)
    /\ UNCHANGED <<backend, clock, inv, cleanup, issued, batchVars, zipVars, cameraVars, flightVars, hookVars>>

\* ------------------------------------- Firebase: autoCleanup (event doc)
\* where('status', '==', 'expired').get()
fbCleanupQuery ==
    /\ backend = "firebase"
    /\ cleanup.pc = "idle"
    /\ event.status = "expired"
    /\ cleanup' = [pc |-> "checking", ev |-> event, now |-> clock, ticked |-> FALSE]
    /\ UNCHANGED <<backend, clock, event, inv, last, issued, batchVars, zipVars, cameraVars, flightVars, hookVars>>

\* the loop body: skip unless shouldCleanGallery, else update({status: 'cleaned'})
fbCleanupEvent ==
    /\ backend = "firebase"
    /\ cleanup.pc = "checking"
    /\ event' = IF shouldCleanGallery(cleanup.ev, clock) THEN [event EXCEPT !.status = "cleaned"] ELSE event
    /\ cleanup' = IdleCleanup
    /\ UNCHANGED <<backend, clock, inv, last, issued, batchVars, zipVars, cameraVars, flightVars, hookVars>>

\* manualCleanup, called by an admin: no status or date check.
fbManualCleanup ==
    /\ backend = "firebase"
    /\ event.status # "cleaned"
    /\ event' = [event EXCEPT !.status = "cleaned"]
    /\ UNCHANGED <<backend, clock, inv, last, cleanup, issued, batchVars, zipVars, cameraVars, flightVars, hookVars>>

\* ------------------------------------------------ scheduled cleanup batch
Min(a, b) == IF a <= b THEN a ELSE b

\* The handler starts: now = new Date(), counters at 0.
StartRun(now) == [NoRun EXCEPT !.pc = "loop", !.now = now, !.again = (run.now = now), !.prevFaulty = run.faulty]

\* The row of the query result the loop processes next.
NextEvent == CHOOSE q \in run.pending : \A r \in run.pending : q.id <= r.id

Snapshot(e) == [id |-> e, status |-> rows[e].status, gallery_expires_at |-> rows[e].gallery_expires_at]

\* An entry of cleanup_errors; the error message is not modelled.
ErrorEntry(e) == [event_id |-> e, fatal |-> FALSE]

FatalEntry == [event_id |-> 0, fatal |-> TRUE]

Summary(r) == [eventsProcessed |-> r.eventsProcessed, eventsCleanedSuccess |-> r.eventsCleanedSuccess, eventsCleanedFailed |-> r.eventsCleanedFailed, totalPhotosDeleted |-> r.totalPhotosDeleted, totalZipsDeleted |-> r.totalZipsDeleted]

\* The invocation ends with result.
EndRun(r, result) == [NoRun EXCEPT !.result = result, !.now = r.now, !.faulty = r.faulty, !.unlogged = r.unlogged]

\* The query of the Supabase handler without its status filter.
sbExpiredEvents_AnyStatus(now) ==
    {e \in EventIds : rows[e].gallery_expires_at # NoDate /\ rows[e].gallery_expires_at < now}

\* select('*').eq('status', 'expired').lt('gallery_expires_at', now)
sbExpiredEvents(now) ==
    {e \in EventIds : /\ rows[e].status = "expired"
                      /\ rows[e].gallery_expires_at # NoDate
                      /\ rows[e].gallery_expires_at < now}

\* where('status', '==', 'expired').get()
fbExpiredEvents == {e \in EventIds : rows[e].status = "expired"}

\* The summary persisted only when no event failed.
LogSummary_NoFailure(r) ==
    IF r.eventsCleanedFailed = 0 THEN cleanup_logs \cup {Summary(r)} ELSE cleanup_logs

\* cleanup_logs after the summary of run r is added to it.
LogSummary(r) == cleanup_logs \cup {Summary(r)}

\* --------------------------------------- Supabase: auto-cleanup (batch)
\* The requests of the per-event body, in order.
sbSteps == <<"list", "remove", "zip", "captures", "update">>

sbStepIdx(s) == CHOOSE i \in 1..Len(sbSteps) : sbSteps[i] = s

\* The query of the expired events whose gallery has expired; a fetchError
\* is thrown to the outer catch, which answers 500.
sbAutoCleanupQuery(fetchError) ==
    /\ backend = "supabase"
    /\ run.pc = "idle"
    /\ LET started == StartRun(clock)
           expiredEvents == sbExpiredEvents(started.now)
       IN  run' = IF fetchError
                  THEN EndRun([started EXCEPT !.faulty = TRUE], "failed")
                  ELSE [started EXCEPT !.pending = {Snapshot(e) : e \in expiredEvents}]
    /\ cleanup_errors' = {}
    /\ cleanup_logs' = {}
    /\ UNCHANGED <<backend, clock, event, inv, last, cleanup, issued, rows, photos, zips, captures, zipVars, cameraVars, flightVars, hookVars>>

\* One iteration of the loop.  errors: the requests that return an error
\* (insertError: the insert into cleanup_errors); thrownAt: the request at
\* which an exception is thrown, if any.
sbAutoCleanupEvent(errors, thrownAt) ==
    /\ backend = "supabase"
    /\ run.pc = "loop"
    /\ run.pending # {}
    /\ LET q == NextEvent
           e == q.id
           n == photos[e]
           listOk == thrownAt # "list" /\ "list" \notin errors
           listed == IF listOk THEN Min(n, StorageListLimit) ELSE 0
           thrown == thrownAt # "none" /\ (thrownAt = "remove" => listed > 0)
           Before(s) == ~thrown \/ sbStepIdx(s) < sbStepIdx(thrownAt)
           Ok(s) == Before(s) /\ s \notin errors
           removed == IF listed > 0 /\ Ok("remove") THEN listed ELSE 0
           zipRemoved == Ok("zip")
           swallowed == \/ \E s \in errors \ {"remove", "insertError"} : Before(s)
                        \/ listed > 0 /\ Before("remove") /\ "remove" \in errors
           unlogged == thrown /\ "insertError" \in errors
       IN  /\ photos' = [photos EXCEPT ![e] = n - removed]
           /\ zips' = [zips EXCEPT ![e] = IF zipRemoved THEN FALSE ELSE @]
           /\ captures' = [captures EXCEPT ![e] = IF Ok("captures") THEN 0 ELSE @]
           /\ rows' = [rows EXCEPT ![e].status = IF Ok("update") THEN "cleaned" ELSE @]
           /\ cleanup_errors' = IF thrown /\ "insertError" \notin errors
                                THEN cleanup_errors \cup {ErrorEntry(e)}
                                ELSE cleanup_errors
           /\ run' = [run EXCEPT !.pending = @ \ {q},
                                 !.eventsProcessed = @ + 1,
                                 !.eventsCleanedSuccess = IF thrown THEN @ ELSE @ + 1,
                                 !.eventsCleanedFailed = IF thrown THEN @ + 1 ELSE @,
                                 !.totalPhotosDeleted = @ + removed,
                                 !.totalZipsDeleted = IF zipRemoved THEN @ + 1 ELSE @,
                                 !.event = e,
                                 !.thrown = thrown,
                                 !.swallowed = swallowed,
                                 !.unlogged = unlogged,
                                 !.faulty = @ \/ thrown \/ swallowed]
    /\ UNCHANGED <<backend, clock, event, inv, last, cleanup, issued, cleanup_logs, zipVars, cameraVars, flightVars, hookVars>>

\* insert(summary), whose result is not looked at, and the 200 response.
sbAutoCleanupSummary(insertError) ==
    /\ backend = "supabase"
    /\ run.pc = "loop"
    /\ run.pending = {}
    /\ cleanup_logs' = IF insertError THEN cleanup_logs ELSE LogSummary(run)
    /\ run' = EndRun([run EXCEPT !.faulty = @ \/ insertError, !.unlogged = insertError], "ok")
    /\ UNCHANGED <<backend, clock, event, inv, last, cleanup, issued, rows, photos, zips, captures, cleanup_errors, zipVars, cameraVars, flightVars, hookVars>>

\* --------------------------------------- Firebase: autoCleanup (batch)
\* The query of the expired events; a failure is thrown to the outer
\* catch, which adds the fatal entry and rethrows.
fbAutoCleanupQuery(queryFails) ==
    /\ backend = "firebase"
    /\ run.pc = "idle"
    /\ LET started == StartRun(clock)
           expiredEvents == fbExpiredEvents
       IN  /\ run' = IF queryFails
                     THEN EndRun([started EXCEPT !.faulty = TRUE], "failed")
                     ELSE [started EXCEPT !.pending = {Snapshot(e) : e \in expiredEvents}]
           /\ cleanup_errors' = IF queryFails THEN {FatalEntry} ELSE {}
           /\ cleanup_logs' = {}
    /\ UNCHANGED <<backend, clock, event, inv, last, cleanup, issued, rows, photos, zips, captures, zipVars, cameraVars, flightVars, hookVars>>

\* One iteration of the loop.  faults: the requests that fail.  A failed
\* file.delete() or ZIP deletion is caught where it happens; the other
\* failures are thrown to the catch of the per-event body.  A WriteBatch
\* cannot be modified after commit(), so the delete that follows the commit
\* of FirestoreBatchLimit deletes throws.
fbAutoCleanupEvent(faults) ==
    /\ backend = "firebase"
    /\ run.pc = "loop"
    /\ run.pending # {}
    /\ LET q == NextEvent
           e == q.id
           n == photos[e]
           c == captures[e]
           clean == shouldCleanGallery(q, clock)
           getFilesFails == "getFiles" \in faults
           deleteFails == ~getFilesFails /\ n > 0 /\ "delete" \in faults
           photosDeleted == IF getFilesFails THEN 0 ELSE IF deleteFails THEN n - 1 ELSE n
           zipFails == ~getFilesFails /\ "zip" \in faults
           zipDeleted == ~getFilesFails /\ ~zipFails /\ zips[e]
           updateFails == ~getFilesFails /\ "update" \in faults
           updated == ~getFilesFails /\ ~updateFails
           capturesGetFails == updated /\ "capturesGet" \in faults
           commits == updated /\ ~capturesGetFails /\ c > 0
           commitFails == commits /\ "commit" \in faults
           capturesDeleted == IF commits /\ ~commitFails THEN Min(c, FirestoreBatchLimit) ELSE 0
           batchReused == commits /\ ~commitFails /\ c > FirestoreBatchLimit
           thrown == getFilesFails \/ updateFails \/ capturesGetFails \/ commitFails \/ batchReused
           addFails == thrown /\ "errorAdd" \in faults
           counted == [run EXCEPT !.pending = @ \ {q},
                                  !.eventsProcessed = @ + 1,
                                  !.event = e,
                                  !.thrown = FALSE,
                                  !.swallowed = FALSE,
                                  !.unlogged = FALSE]
       IN  IF ~clean
           THEN /\ run' = counted
                /\ UNCHANGED <<rows, photos, zips, captures, cleanup_errors>>
           ELSE /\ photos' = [photos EXCEPT ![e] = n - photosDeleted]
                /\ zips' = [zips EXCEPT ![e] = IF zipDeleted THEN FALSE ELSE @]
                /\ rows' = [rows EXCEPT ![e].status = IF updated THEN "cleaned" ELSE @]
                /\ captures' = [captures EXCEPT ![e] = c - capturesDeleted]
                /\ cleanup_errors' = IF ~thrown THEN cleanup_errors
                                     ELSE IF addFails THEN cleanup_errors \cup {FatalEntry}
                                     ELSE cleanup_errors \cup {ErrorEntry(e)}
                /\ LET r == [counted EXCEPT !.eventsCleanedSuccess = IF thrown THEN @ ELSE @ + 1,
                                            !.eventsCleanedFailed = IF thrown THEN @ + 1 ELSE @,
                                            !.totalPhotosDeleted = @ + photosDeleted,
                                            !.totalZipsDeleted = IF zipDeleted THEN @ + 1 ELSE @,
                                            !.thrown = thrown,
                                            !.swallowed = deleteFails \/ zipFails,
                                            !.unlogged = addFails,
                                            !.faulty = @ \/ thrown \/ deleteFails \/ zipFails]
                   IN  run' = IF addFails THEN EndRun(r, "failed") ELSE r
    /\ UNCHANGED <<backend, clock, event, inv, last, cleanup, issued, cleanup_logs, zipVars, cameraVars, flightVars, hookVars>>

\* collection('cleanup_logs').add(summary); a failure is thrown to the outer
\* catch.
fbAutoCleanupSummary(addFails) ==
    /\ backend = "firebase"
    /\ run.pc = "loop"
    /\ run.pending = {}
    /\ cleanup_logs' = IF addFails THEN cleanup_logs ELSE LogSummary(run)
    /\ cleanup_errors' = IF addFails THEN cleanup_errors \cup {FatalEntry} ELSE cleanup_errors
    /\ run' = EndRun([run EXCEPT !.faulty = @ \/ addFails, !.unlogged = addFails], IF addFails THEN "failed" ELSE "ok")
    /\ UNCHANGED <<backend, clock, event, inv, last, cleanup, issued, rows, photos, zips, captures, zipVars, cameraVars, flightVars, hookVars>>

\* ------------------------------------------------------ specifications
\* A Firestore transaction is atomic, so calls of different clients do not
\* overlap: one client slot holds the response of the last call.
fbCaller == CHOOSE p \in Clients : \A q \in Clients : p <= q

Reserve ==
    \/ \E p \in Clients, found \in BOOLEAN : sbFetch(p, found)
    \/ \E p \in Clients : sbAutoExpire(p)
    \/ \E p \in Clients, requestFails \in BOOLEAN : sbUpdate(p, requestFails)
    \/ \E found \in BOOLEAN : fbReserveCapture(fbCaller, found)

Buffer ==
    \/ \E found \in BOOLEAN : fbReserveCaptureWithBuffer(fbCaller, found)
    \/ \E found \in BOOLEAN : fbConfirmCapture(fbCaller, found)

Cleanup ==
    \/ sbCleanupQuery
    \/ sbCleanupEvent
    \/ fbCleanupQuery
    \/ fbCleanupEvent
    \/ fbManualCleanup

Environment ==
    \/ Deploy
    \/ Tick

Next == Environment \/ Reserve \/ Buffer \/ Cleanup

Spec == Init /\ [][Next]_vars

\* Reservation invocations only (no buffer, no confirm).
NextReserve == Environment \/ Reserve \/ Cleanup

SpecReserve == Init /\ [][NextReserve]_vars

\* Reservations applied to an arbitrary event row at an arbitrary time.
EventRows == [status : {"draft", "active", "expired", "cleaned"}, capture_count : 0..MaxPhotoLimit, reserved_count : 0..MaxPhotoLimit, photo_limit : 1..MaxPhotoLimit, start_date : StartDates, end_date : EndDates, gallery_expires_at : {NoDate}, totalCaptures : 0..MaxPhotoLimit]

InitRows ==
    /\ backend \in Backends
    /\ clock \in {k * TickDays : k \in 0..MaxTicks}
    /\ event \in {r \in EventRows : r.capture_count <= r.photo_limit /\ r.totalCaptures = r.capture_count /\ r.capture_count + r.reserved_count <= r.photo_limit}
    /\ inv = [p \in Clients |-> IdleInv]
    /\ last = NoLast
    /\ cleanup = IdleCleanup
    /\ issued = [n \in 1..MaxPhotoLimit |-> 0]
    /\ EmptyStore
    /\ NoAlbum
    /\ NoCamera
    /\ NoFlight
    /\ NoHooks

SpecRows == InitRows /\ [][Reserve]_vars

\* The scheduled cleanup on expired and active events with stored photos,
\* ZIP and capture rows.
\* In one iteration at most one request of the per-event body fails, and with
\* it possibly the write of the error entry; in one run requests fail in at
\* most one iteration.
sbFaults == {{}} \cup {{s} : s \in {"list", "remove", "zip", "captures", "update", "insertError"}}

\* The request of the per-event body at which an exception is thrown.
sbThrowPoints == {"none", "list", "remove", "zip", "captures", "update"}

fbFaults == {f \in SUBSET {"getFiles", "delete", "zip", "update", "capturesGet", "commit", "errorAdd"} : Cardinality(f \ {"errorAdd"}) <= 1}

AutoCleanup ==
    \/ \E fetchError \in BOOLEAN : sbAutoCleanupQuery(fetchError)
    \/ \E errors \in sbFaults, thrownAt \in sbThrowPoints :
          /\ thrownAt = "none" \/ errors \subseteq {"insertError"}
          /\ run.faulty => (errors = {} /\ thrownAt = "none")
          /\ sbAutoCleanupEvent(errors, thrownAt)
    \/ \E insertError \in BOOLEAN : sbAutoCleanupSummary(insertError)
    \/ \E queryFails \in BOOLEAN : fbAutoCleanupQuery(queryFails)
    \/ \E faults \in fbFaults :
          /\ run.faulty => faults = {}
          /\ fbAutoCleanupEvent(faults)
    \/ \E addFails \in BOOLEAN : fbAutoCleanupSummary(addFails)

\* Events as they are in the store, with their photos, ZIP and capture rows:
\* active, expired with a gallery that expires at the first clock value, and
\* expired with an expired gallery and more photos and capture rows than one
\* list() returns and one WriteBatch takes.
Stored(st, g, n, z, c) == [status |-> st, gallery_expires_at |-> g, photos |-> n, zip |-> z, captures |-> c]

StoredEvents ==
    {Stored("active", NoDate, 1, TRUE, 1),
     Stored("expired", MaxNow - TickDays, 1, TRUE, 1),
     Stored("expired", MaxNow - 2 * TickDays, StorageListLimit + 1, TRUE, FirestoreBatchLimit + 1)}

InitCleanup ==
    /\ backend \in Backends
    /\ clock = MaxNow - TickDays
    /\ event = NullEvent
    /\ inv = [p \in Clients |-> IdleInv]
    /\ last = NoLast
    /\ cleanup = IdleCleanup
    /\ issued = [n \in 1..MaxPhotoLimit |-> 0]
    /\ \E stored \in [EventIds -> StoredEvents] :
          /\ rows = [e \in EventIds |-> [status |-> stored[e].status, gallery_expires_at |-> stored[e].gallery_expires_at]]
          /\ photos = [e \in EventIds |-> stored[e].photos]
          /\ zips = [e \in EventIds |-> stored[e].zip]
          /\ captures = [e \in EventIds |-> stored[e].captures]
    /\ cleanup_errors = {}
    /\ cleanup_logs = {}
    /\ run = NoRun
    /\ NoAlbum
    /\ NoCamera
    /\ NoFlight
    /\ NoHooks

NextCleanup == Tick \/ AutoCleanup

SpecCleanup == InitCleanup /\ [][NextCleanup]_vars

\* ------------------------------------------------------------ properties
\* Client p's call returns in this step.
Completes(p) ==
    /\ last'.client = p
    /\ last' # last \/ (inv[p].pc # "idle" /\ inv'[p].pc = "idle")

ReserveCompletes(p) == Completes(p) /\ last'.op = "reserve"

\* The value of now in the handler whose call returns in this step.
HandlerNow(p) == IF backend = "supabase" THEN inv[p].now ELSE clock

\* C1: of two reservations that passed validation on the same capture_count
\* N, exactly one returns success, with captureNumber N+1, and the other
\* returns the conflict result: after one has returned success, the other
\* returns the conflict result.
C1_ExactlyOneWins ==
    [][\A p \in Clients :
        (/\ ReserveCompletes(p)
         /\ last.op = "reserve"
         /\ last.client # p
         /\ last.read # NoRead
         /\ last'.read = last.read
         /\ last.resp.success) =>
            /\ ~last'.resp.success
            /\ last'.resp.message = "Concurrent update conflict, please retry"
            /\ \A n \in last.read : last.resp.captureNumber = n + 1]_vars

\* C2: under any interleaving of reservation invocations capture_count
\* never exceeds photo_limit.
C2_LimitEnforced == event.capture_count <= event.photo_limit

\* Two reservations that raced on the last slot have both returned.
C2_Witness ==
    /\ last.op = "reserve"
    /\ last.read = {event.photo_limit - 1}
    /\ issued[event.photo_limit] = 2
    /\ event.capture_count = event.photo_limit

\* C3: the captureNumber values returned by successful reservations are
\* pairwise distinct.
C3_DistinctNumbers == \A n \in DOMAIN issued : issued[n] <= 1

\* C4: once status has left draft, capture_count + reserved_count <= photo_limit
\* in every state reachable by reserveCapture, reserveCaptureWithBuffer and
\* confirmCapture calls.
C4_SlotsWithinLimit ==
    event.status # "draft" => event.capture_count + event.reserved_count <= event.photo_limit

\* C5: no step moves the status of the event backwards in
\* draft -> active -> expired -> cleaned.
C5_StatusMonotonic == [][StatusRank(event'.status) >= StatusRank(event.status)]_vars

\* The event was expired by an end-date reservation and later cleaned.
C5_Witness ==
    /\ backend = "supabase"
    /\ event.status = "cleaned"
    /\ last.resp.message = "Event has ended"

\* C6: a reservation that returns success has incremented capture_count by
\* exactly one, and returns the new capture_count and the resulting status.
C6_SuccessIncrements ==
    [][\A p \in Clients :
        (ReserveCompletes(p) /\ last'.resp.success) =>
            /\ event'.capture_count = event.capture_count + 1
            /\ last'.resp.captureNumber = event'.capture_count
            /\ last'.resp.status = event'.status]_vars

\* C7: the reservation that brings capture_count to photo_limit sets, in the
\* same update, status to expired and gallery_expires_at to now + 15 days and
\* reports status expired; no state has status active with
\* capture_count = photo_limit.
C7_ExpiresAtLimit ==
    /\ [](~(event.status = "active" /\ event.capture_count = event.photo_limit))
    /\ [][\A p \in Clients :
            (/\ ReserveCompletes(p)
             /\ last'.resp.success
             /\ event'.capture_count # event.capture_count
             /\ event'.capture_count = event'.photo_limit) =>
                /\ event'.status = "expired"
                /\ event'.gallery_expires_at = HandlerNow(p) + GalleryRetentionDays
                /\ last'.resp.status = "expired"
                /\ last'.resp.captureNumber = event'.photo_limit]_vars

\* A reservation has taken the last slot and the event is expired.
C7_Witness ==
    /\ last.op = "reserve"
    /\ last.resp.success
    /\ last.resp.captureNumber = event.photo_limit
    /\ last.resp.status = "expired"
    /\ event.status = "expired"
    /\ event.capture_count = event.photo_limit

\* The reservation of p decides on the event row in this step: the Supabase
\* handler reads and validates it, the Firebase transaction completes.
sbValidates(p) ==
    /\ backend = "supabase"
    /\ inv[p].pc = "idle"
    /\ \/ inv'[p].pc # "idle"
       \/ last' # last /\ last'.client = p /\ last'.resp.message # "Event not found"

fbReserves(p) == backend = "firebase" /\ ReserveCompletes(p) /\ ~last'.resp.thrown

AtLimit(ev) == ev.capture_count = ev.photo_limit

InRange(ev, now) == ev.status = "active" /\ now >= ev.start_date /\ now <= ev.end_date

Ended(ev, now) == ev.status = "active" /\ now >= ev.start_date /\ now > ev.end_date

\* C8 as stated: a reservation on an event with capture_count = photo_limit
\* fails with "limit reached" and does not change the event row.
C8_AlwaysLimitReached ==
    [][\A p \in Clients :
        /\ (sbValidates(p) /\ AtLimit(event)) =>
              /\ Completes(p)
              /\ last'.resp.message = "Photo limit reached"
              /\ event' = event
        /\ (fbReserves(p) /\ AtLimit(event)) =>
              /\ last'.resp.message = "Photo limit reached"
              /\ event' = event]_vars

\* C8 amended: a reservation on an event with capture_count = photo_limit
\* never succeeds and never reaches the counter update; it returns
\* "limit reached", leaving the row unchanged, exactly when the event is
\* active and start_date <= now <= end_date, and the result of the earlier
\* failing check otherwise.
C8_NeverSucceedsAtLimit ==
    [][\A p \in Clients :
        /\ (sbValidates(p) /\ AtLimit(event)) =>
              /\ event' = event
              /\ inv'[p].pc \in {"idle", "expiring"}
              /\ inv'[p].pc = "idle" => ~last'.resp.success
              /\ InRange(event, clock) <=> (Completes(p) /\ last'.resp.message = "Photo limit reached")
              /\ inv'[p].pc = "expiring" <=> Ended(event, clock)
        /\ (fbReserves(p) /\ AtLimit(event)) =>
              /\ event' = event
              /\ ~last'.resp.success
              /\ InRange(event, clock) <=> last'.resp.message = "Photo limit reached"]_vars

\* A reservation on an active event in its date range whose capture_count is
\* photo_limit has returned "limit reached".
C8_Witness ==
    /\ last.op = "reserve"
    /\ last.resp.message = "Photo limit reached"
    /\ event.status = "active"
    /\ AtLimit(event)

\* C9: a reservation on an active event made when now > end_date returns
\* "ended" and leaves the event expired with gallery_expires_at = now + 15 days.
C9_EndedExpiresEvent ==
    [][\A p \in Clients :
        /\ (sbValidates(p) /\ Ended(event, clock)) =>
              inv'[p].pc = "expiring"
        /\ (backend = "supabase" /\ inv[p].pc = "expiring" /\ inv'[p].pc = "idle") =>
              /\ last'.client = p
              /\ last'.resp.message = "Event has ended"
              /\ event'.status = "expired"
              /\ event'.gallery_expires_at = inv[p].now + GalleryRetentionDays
        /\ (fbReserves(p) /\ Ended(event, clock)) =>
              /\ last'.resp.message = "Event has ended"
              /\ event'.status = "expired"
              /\ event'.gallery_expires_at = clock + GalleryRetentionDays]_vars

\* C10: once a reservation has returned "ended", having expired the event,
\* no step changes gallery_expires_at again.
C10_ExpiredOnce ==
    [][(backend = "supabase" /\ last.resp.message = "Event has ended") =>
            event'.gallery_expires_at = event.gallery_expires_at]_vars

\* The first failing precondition of a reservation on row ev at time now, in
\* the order status, start_date, end_date, limit.
FirstFailing(ev, now) ==
    IF ev.status # "active" THEN "not active"
    ELSE IF now < ev.start_date THEN "not started"
    ELSE IF now > ev.end_date THEN "ended"
    ELSE IF ev.capture_count >= ev.photo_limit THEN "limit reached"
    ELSE "ok"

\* The kind of result a response is.
ResultClass(resp) ==
    IF resp.success THEN "ok"
    ELSE CASE resp.message = "Event not found" -> "not found"
           [] resp.message \in {"Event is not active", "Event has been cleaned up", "Event has expired"} -> "not active"
           [] resp.message = "Event has not started yet" -> "not started"
           [] resp.message = "Event has ended" -> "ended"
           [] resp.message = "Photo limit reached" -> "limit reached"
           [] OTHER -> resp.message

\* What the Supabase handler of p decided in the step that validates the row.
sbOutcome(p) ==
    IF inv'[p].pc = "expiring" THEN "ended"
    ELSE IF inv'[p].pc = "updating" THEN "ok"
    ELSE ResultClass(last'.resp)

\* C11: a reservation on an existing event returns the result of the first
\* failing check in the order status == active, now >= start_date,
\* now <= end_date, capture_count < photo_limit, and no failure is an exception.
C11_PreconditionOrder ==
    [][\A p \in Clients :
        /\ ReserveCompletes(p) => ~last'.resp.thrown
        /\ sbValidates(p) => sbOutcome(p) = FirstFailing(event, clock)
        /\ fbReserves(p) => ResultClass(last'.resp) = FirstFailing(event, clock)]_vars

\* C12: a successful reserveCaptureWithBuffer increments reserved_count by
\* exactly one, leaves capture_count and status unchanged, and returns
\* capture_count + the new reserved_count.
C12_BufferReserves ==
    [][\A p \in Clients :
        (Completes(p) /\ last'.op = "buffer" /\ last'.resp.success) =>
            /\ event'.reserved_count = event.reserved_count + 1
            /\ event'.capture_count = event.capture_count
            /\ event'.status = event.status
            /\ last'.resp.captureNumber = event'.capture_count + event'.reserved_count]_vars

\* A slot was reserved with buffer after a capture: provisional slot number 2.
C12_Witness ==
    /\ last.op = "buffer"
    /\ last.resp.success
    /\ event.capture_count = 1
    /\ event.reserved_count = 1
    /\ last.resp.captureNumber = 2

\* C13: a confirmCapture call decrements reserved_count by exactly one and
\* increments capture_count by exactly one.
C13_ConfirmConverts ==
    [][\A p \in Clients :
        (Completes(p) /\ last'.op = "confirm" /\ last'.resp.success) =>
            /\ event'.reserved_count = event.reserved_count - 1
            /\ event'.capture_count = event.capture_count + 1]_vars

\* Reservations with buffer that are never confirmed.
ReserveWithBuffer == \E found \in BOOLEAN : fbReserveCaptureWithBuffer(fbCaller, found)

NextAbandoned == Environment \/ Reserve \/ ReserveWithBuffer \/ Cleanup

SpecAbandoned == Init /\ [][NextAbandoned]_vars /\ WF_vars(NextAbandoned)

\* C14: without a confirmCapture call, a reserved slot is eventually
\* released: reserved_count eventually drops below each value it takes.
C14_ReservedReleased ==
    \A k \in 1..MaxPhotoLimit : (event.reserved_count = k) ~> (event.reserved_count < k)

\* The scheduled cleanup deletes something of event e or changes its row in
\* this step.
ActsOn(e) ==
    \/ rows'[e] # rows[e]
    \/ photos'[e] # photos[e]
    \/ zips'[e] # zips[e]
    \/ captures'[e] # captures[e]

GalleryExpired(e, now) ==
    /\ rows[e].status = "expired"
    /\ rows[e].gallery_expires_at # NoDate
    /\ rows[e].gallery_expires_at < now

\* C15: the scheduled cleanup deletes nothing of, and does not change the
\* status of, an event whose gallery_expires_at is not in the past: it acts
\* only on events with status expired and gallery_expires_at < now.
C15_OnlyExpiredGalleries ==
    [][\A e \in EventIds : ActsOn(e) => GalleryExpired(e, clock)]_vars

\* A run has gone through its loop and cleaned an event, and an expired event
\* whose gallery expires now or later still has its photo, its capture row
\* and its status.
C15_Witness ==
    /\ run.pc = "loop"
    /\ run.pending = {}
    /\ run.eventsCleanedSuccess >= 1
    /\ \E e \in EventIds :
          /\ rows[e].status = "expired"
          /\ rows[e].gallery_expires_at >= clock
          /\ photos[e] = 1
          /\ captures[e] = 1

\* C16: an event with status cleaned has no photo object, no cached ZIP and
\* no capture row left, whatever the number of photos and rows it had.
C16_CleanedMeansDeleted ==
    \A e \in EventIds :
        rows[e].status = "cleaned" => photos[e] = 0 /\ ~zips[e] /\ captures[e] = 0

\* The invocation in its loop started at the time the invocation before it
\* started: the second run in a row.
SecondRun == run.pc = "loop" /\ run.again

Iteration == run.pc = "loop" /\ run.pending # {}

\* C18: when a request of the per-event body fails (and the error entry can
\* be written), an error entry for the event is recorded and the batch goes
\* on with the remaining events.
C18_FailureRecorded ==
    [][(Iteration /\ ~run'.unlogged /\ (run'.thrown \/ run'.swallowed))
          => /\ ErrorEntry(run'.event) \in cleanup_errors'
             /\ run'.pc = "loop"
             /\ run'.pending = run.pending \ {NextEvent}]_vars

\* C19: the step after the per-event loop persists the summary of the run
\* (unless the write itself fails), whatever the number of failed events.
C19_SummaryPersisted ==
    [][(run.pc = "loop" /\ run.pending = {} /\ run'.pc = "idle" /\ ~run'.unlogged)
          => Summary(run) \in cleanup_logs']_vars

\* A run with a failed event has ended and its summary is in cleanup_logs.
C19_Witness ==
    /\ run.pc = "idle"
    /\ run.result = "ok"
    /\ \E s \in cleanup_logs : s.eventsCleanedFailed >= 1 /\ s.eventsProcessed >= 1

\* C20: an invocation that reported failure has recorded a fatal error
\* entry.
C20_FatalRecorded ==
    run.result = "failed" => FatalEntry \in cleanup_errors

\* ------------------------------------------------- the daily cleanup
\* The scheduled cleanup function, run every day.
ScheduledCleanup ==
    \/ sbCleanupQuery
    \/ sbCleanupEvent
    \/ fbCleanupQuery
    \/ fbCleanupEvent

NextDaily == Environment \/ Reserve \/ ScheduledCleanup

\* Time passes and the scheduler keeps running the cleanup; guests may or may
\* not call the reservation function.
SpecDaily == Init /\ [][NextDaily]_vars /\ WF_vars(Tick) /\ WF_vars(ScheduledCleanup)

\* C21: a deployed event whose end_date has passed eventually leaves status
\* active: it reaches status expired, from where the cleanup takes it to
\* cleaned.
C21_EndedEventExpires ==
    (event.status = "active" /\ clock > event.end_date) ~> (event.status \in {"expired", "cleaned"})

\* ------------------------------------------------------ ZIP generation
\* Time is counted in hours here.  It advances by HourStep, half the age up
\* to which a cached archive is served, or by the gallery retention, at most
\* MaxHourTicks times.
MaxHourTicks == 4
MaxUploads == 2

CacheHours == 24
UrlHours == 24
GalleryRetentionHours == GalleryRetentionDays * 24

HourStep == CacheHours \div 2

HourTicks(h) == (h \div GalleryRetentionHours) + ((h % GalleryRetentionHours) \div HourStep)

\* The gallery token of the event, and a token that is not it.
Tokens == {"secret", "guess"}

ZipTick ==
    /\ HourTicks(hour) < MaxHourTicks
    /\ \E d \in {HourStep, GalleryRetentionHours} : hour' = hour + d
    /\ UNCHANGED <<backend, clock, event, inv, last, cleanup, issued, batchVars, album, cloudCaptures, albumZip, zipLast, cameraVars, flightVars, hookVars>>

\* A capture row of the event with uploaded_to_cloud = true appears.
CloudCapture ==
    /\ album.status = "active"
    /\ album.has_cloud_album
    /\ Cardinality(cloudCaptures) < MaxUploads
    /\ cloudCaptures' = cloudCaptures \cup {Cardinality(cloudCaptures) + 1}
    /\ UNCHANGED <<backend, clock, event, inv, last, cleanup, issued, batchVars, hour, album, albumZip, zipLast, cameraVars, flightVars, hookVars>>

\* The reservation function expires the event: the gallery stays for
\* GalleryRetentionDays.
AlbumExpires ==
    /\ album.status = "active"
    /\ album' = [album EXCEPT !.status = "expired", !.gallery_expires_at = hour + GalleryRetentionHours]
    /\ UNCHANGED <<backend, clock, event, inv, last, cleanup, issued, batchVars, hour, cloudCaptures, albumZip, zipLast, cameraVars, flightVars, hookVars>>

\* The scheduled cleanup cleans the event: the capture rows are deleted, and
\* the ZIP unless its removal fails.
AlbumCleaned(zipRemoved) ==
    /\ album.status = "expired"
    /\ album.gallery_expires_at < hour
    /\ album' = [album EXCEPT !.status = "cleaned"]
    /\ cloudCaptures' = {}
    /\ albumZip' = IF zipRemoved THEN NoZip ELSE albumZip
    /\ UNCHANGED <<backend, clock, event, inv, last, cleanup, issued, batchVars, hour, zipLast, cameraVars, flightVars, hookVars>>

\* The result of the validation: the error, or ok.
ZipOk == [code |-> "ok", message |-> ""]

ZipError(code, msg) == [code |-> code, message |-> msg]

\* The responses of a request with token for the event found or not.
ZipFailure(token, found, err) == [token |-> token, found |-> found, success |-> FALSE, code |-> err.code, message |-> err.message, url |-> NoUrl, expiresAt |-> NoDate, wrote |-> FALSE, fetched |-> {}, unfetched |-> {}]

ZipSuccess(token, found, code, msg, zip, now, wrote) == [token |-> token, found |-> found, success |-> TRUE, code |-> code, message |-> msg, url |-> [createdAt |-> zip.createdAt, photos |-> zip.photos], expiresAt |-> now + UrlHours, wrote |-> wrote, fetched |-> {}, unfetched |-> {}]

\* The response of a request whose per-photo loop ran over fetch.
Looped(resp, fetch) == [resp EXCEPT !.fetched = {c \in DOMAIN fetch : fetch[c] = "ok"}, !.unfetched = {c \in DOMAIN fetch : fetch[c] # "ok"}]

\* ---------------------------- Firebase: generateAlbumZip
\* fbZipValidation with the status check before the token check.
fbZipValidation_StatusFirst(ev, found, token, now) ==
    IF ~found THEN ZipError("not-found", "Event not found")
    ELSE IF ev.status = "cleaned" THEN ZipError("failed-precondition", "Gallery has been cleaned up")
    ELSE IF ev.gallery_token # token THEN ZipError("permission-denied", "Invalid gallery token")
    ELSE IF ~ev.has_cloud_album THEN ZipError("failed-precondition", "This event does not have cloud album feature")
    ELSE IF now > (IF ev.gallery_expires_at # NoDate THEN ev.gallery_expires_at ELSE now)
         THEN ZipError("failed-precondition", "Gallery has expired")
    ELSE ZipOk

\* fbZipValidation without the token check.
fbZipValidation_NoToken(ev, found, token, now) ==
    IF ~found THEN ZipError("not-found", "Event not found")
    ELSE IF ~ev.has_cloud_album THEN ZipError("failed-precondition", "This event does not have cloud album feature")
    ELSE IF ev.status = "cleaned" THEN ZipError("failed-precondition", "Gallery has been cleaned up")
    ELSE IF now > (IF ev.gallery_expires_at # NoDate THEN ev.gallery_expires_at ELSE now)
         THEN ZipError("failed-precondition", "Gallery has expired")
    ELSE ZipOk

\* The checks that precede the cache check.  Without galleryExpiresAt the
\* date compared with now is a new Date(), which is not before now.
fbZipValidation(ev, found, token, now) ==
    IF ~found THEN ZipError("not-found", "Event not found")
    ELSE IF ev.gallery_token # token THEN ZipError("permission-denied", "Invalid gallery token")
    ELSE IF ~ev.has_cloud_album THEN ZipError("failed-precondition", "This event does not have cloud album feature")
    ELSE IF ev.status = "cleaned" THEN ZipError("failed-precondition", "Gallery has been cleaned up")
    ELSE IF now > (IF ev.gallery_expires_at # NoDate THEN ev.gallery_expires_at ELSE now)
         THEN ZipError("failed-precondition", "Gallery has expired")
    ELSE ZipOk

\* The cache check that never finds a recent ZIP.
fbZipCached_Never(zip, now) == FALSE

\* exists and ageHours < 24
fbZipCached(zip, now) == zip.exists /\ now - zip.createdAt < CacheHours

\* capturesSnapshot.empty answered with another error code.
fbNoPhotosFound_Internal == ZipError("internal", "No photos found in cloud album")

fbNoPhotosFound == ZipError("not-found", "No photos found in cloud album")

\* How the bytes of a photo are fetched: ok; missing (exists() is false);
\* throws (exists() rejects, caught in the loop); unread (the object exists
\* and is appended, and its read stream fails while the archive is written).
fbFetches == {"ok", "missing", "throws", "unread"}

\* The photos appended to the archive: photoCount counts them.
fbAppended(fetch) == {c \in DOMAIN fetch : fetch[c] \in {"ok", "unread"}}

\* A failed read stream is outside the try of the loop: the archive is not
\* finalized, nothing is uploaded and the call does not succeed.
fbGenerateAlbumZip(token, found, fetch) ==
    /\ backend = "firebase"
    /\ LET now == hour
           v == fbZipValidation(album, found, token, now)
           appended == fbAppended(fetch)
           broken == \E c \in appended : fetch[c] = "unread"
           built == [exists |-> TRUE, createdAt |-> now, photos |-> appended]
       IN  IF v # ZipOk
           THEN /\ zipLast' = ZipFailure(token, found, v)
                /\ UNCHANGED albumZip
           ELSE IF fbZipCached(albumZip, now)
           THEN /\ zipLast' = ZipSuccess(token, found, "ok", "Using cached ZIP", albumZip, now, FALSE)
                /\ UNCHANGED albumZip
           ELSE IF cloudCaptures = {}
           THEN /\ zipLast' = ZipFailure(token, found, fbNoPhotosFound)
                /\ UNCHANGED albumZip
           ELSE IF appended = {}
           THEN /\ zipLast' = Looped(ZipFailure(token, found, ZipError("not-found", "No accessible photos found")), fetch)
                /\ UNCHANGED albumZip
           ELSE IF broken
           THEN /\ zipLast' = Looped(ZipFailure(token, found, ZipError("internal", "Failed to generate album ZIP")), fetch)
                /\ UNCHANGED albumZip
           ELSE /\ zipLast' = Looped(ZipSuccess(token, found, "ok", "ZIP created", built, now, TRUE), fetch)
                /\ albumZip' = built
    /\ UNCHANGED <<backend, clock, event, inv, last, cleanup, issued, batchVars, hour, album, cloudCaptures, cameraVars, flightVars, hookVars>>

\* ---------------------------- Supabase: generate-album-zip
\* The checks that precede the cache check; the errors are HTTP statuses.
sbZipValidation(ev, found, token, now) ==
    IF ~found THEN ZipError("404", "Event not found")
    ELSE IF ev.gallery_token # token THEN ZipError("403", "Invalid gallery token")
    ELSE IF ~ev.has_cloud_album THEN ZipError("400", "This event does not have cloud album feature")
    ELSE IF ev.status = "cleaned" THEN ZipError("400", "Gallery has been cleaned up")
    ELSE IF ev.gallery_expires_at # NoDate /\ now > ev.gallery_expires_at
         THEN ZipError("400", "Gallery has expired")
    ELSE ZipOk

\* createSignedUrl(zipPath, 86400) gives a URL if the object exists.
sbZipCached(zip, now) == zip.exists

\* How the bytes of a photo are fetched: ok; error (download returns
\* downloadError); throws (caught in the loop).
sbFetches == {"ok", "error", "throws"}

sbAdded(fetch) == {c \in DOMAIN fetch : fetch[c] = "ok"}

sbGenerateAlbumZip(token, found, fetch, uploadError) ==
    /\ backend = "supabase"
    /\ LET now == hour
           v == sbZipValidation(album, found, token, now)
           added == sbAdded(fetch)
           built == [exists |-> TRUE, createdAt |-> now, photos |-> added]
       IN  IF v # ZipOk
           THEN /\ zipLast' = ZipFailure(token, found, v)
                /\ UNCHANGED albumZip
           ELSE IF sbZipCached(albumZip, now)
           THEN /\ zipLast' = ZipSuccess(token, found, "200", "Using cached ZIP", albumZip, now, FALSE)
                /\ UNCHANGED albumZip
           ELSE IF cloudCaptures = {}
           THEN /\ zipLast' = ZipFailure(token, found, ZipError("404", "No photos found in cloud album"))
                /\ UNCHANGED albumZip
           ELSE IF added = {}
           THEN /\ zipLast' = Looped(ZipFailure(token, found, ZipError("404", "No accessible photos found")), fetch)
                /\ UNCHANGED albumZip
           ELSE IF uploadError
           THEN /\ zipLast' = Looped(ZipFailure(token, found, ZipError("500", "Failed to create ZIP archive")), fetch)
                /\ UNCHANGED albumZip
           ELSE /\ zipLast' = Looped(ZipSuccess(token, found, "200", "ZIP created", built, now, TRUE), fetch)
                /\ albumZip' = built
    /\ UNCHANGED <<backend, clock, event, inv, last, cleanup, issued, batchVars, hour, album, cloudCaptures, cameraVars, flightVars, hookVars>>

\* ---------------------------- specification
\* The photos are fetched only by a request that builds the archive.
AllFetched == [c \in cloudCaptures |-> "ok"]

fbBuilds(token, found) == fbZipValidation(album, found, token, hour) = ZipOk /\ ~fbZipCached(albumZip, hour)

sbBuilds(token, found) == sbZipValidation(album, found, token, hour) = ZipOk /\ ~sbZipCached(albumZip, hour)

GenerateZip ==
    \/ \E token \in Tokens, found \in BOOLEAN :
          \E fetch \in IF fbBuilds(token, found) THEN [cloudCaptures -> fbFetches] ELSE {AllFetched} :
              fbGenerateAlbumZip(token, found, fetch)
    \/ \E token \in Tokens, found \in BOOLEAN :
          \E fetch \in IF sbBuilds(token, found) THEN [cloudCaptures -> sbFetches] ELSE {AllFetched} :
              \E uploadError \in IF sbBuilds(token, found) THEN BOOLEAN ELSE {FALSE} :
                  sbGenerateAlbumZip(token, found, fetch, uploadError)

InitZip ==
    /\ backend \in Backends
    /\ clock = 0
    /\ event = NullEvent
    /\ inv = [p \in Clients |-> IdleInv]
    /\ last = NoLast
    /\ cleanup = IdleCleanup
    /\ issued = [n \in 1..MaxPhotoLimit |-> 0]
    /\ EmptyStore
    /\ hour = 0
    /\ \E entitled \in BOOLEAN :
          album = [status |-> "active", gallery_token |-> "secret", has_cloud_album |-> entitled, gallery_expires_at |-> NoDate]
    /\ cloudCaptures = {}
    /\ albumZip = NoZip
    /\ zipLast = NoZipLast
    /\ NoCamera
    /\ NoFlight
    /\ NoHooks

NextZip ==
    \/ ZipTick
    \/ CloudCapture
    \/ AlbumExpires
    \/ \E zipRemoved \in BOOLEAN : AlbumCleaned(zipRemoved)
    \/ GenerateZip

SpecZip == InitZip /\ [][NextZip]_vars

\* A ZIP generation request returns in this step.
ZipReturns == zipLast' # zipLast

\* The first check that fails, in the order: event exists, token matches,
\* cloud-album entitlement, status not cleaned, now <= gallery_expires_at.
ZipFirstFailing(ev, found, token, now) ==
    IF ~found THEN "not found"
    ELSE IF token # ev.gallery_token THEN "permission"
    ELSE IF ~ev.has_cloud_album THEN "entitlement"
    ELSE IF ev.status = "cleaned" THEN "cleaned"
    ELSE IF ev.gallery_expires_at # NoDate /\ ~(now <= ev.gallery_expires_at) THEN "expired"
    ELSE "ok"

NotFoundCodes == {"not-found", "404"}

PermissionCodes == {"permission-denied", "403"}

PreconditionCodes == {"failed-precondition", "400"}

\* The check a response reports as failed: its error kind and its message.
ZipReported(resp) ==
    IF resp.message = "Event not found" /\ resp.code \in NotFoundCodes THEN "not found"
    ELSE IF resp.message = "Invalid gallery token" /\ resp.code \in PermissionCodes THEN "permission"
    ELSE IF resp.message = "This event does not have cloud album feature" /\ resp.code \in PreconditionCodes THEN "entitlement"
    ELSE IF resp.message = "Gallery has been cleaned up" /\ resp.code \in PreconditionCodes THEN "cleaned"
    ELSE IF resp.message = "Gallery has expired" /\ resp.code \in PreconditionCodes THEN "expired"
    ELSE IF resp.message \in {"Event not found", "Invalid gallery token", "This event does not have cloud album feature", "Gallery has been cleaned up", "Gallery has expired"} THEN "other"
    ELSE "ok"

\* C22: a ZIP generation request reports the first failing check of the
\* order exists, token (permission error), entitlement, status not cleaned,
\* gallery not expired (precondition errors), and passes them if none fails.
C22_ZipValidationOrder ==
    [][ZipReturns => ZipReported(zipLast') = ZipFirstFailing(album, zipLast'.found, zipLast'.token, hour)]_vars

\* A request with a wrong token for a cleaned event whose gallery has expired
\* was answered with the permission error.
C22_Witness ==
    /\ zipLast.found
    /\ zipLast.token # album.gallery_token
    /\ album.status = "cleaned"
    /\ hour > album.gallery_expires_at
    /\ zipLast.message = "Invalid gallery token"

\* The request is one that must not get a download URL.
ZipForbidden(token) ==
    \/ token # album.gallery_token
    \/ ~album.has_cloud_album
    \/ album.status = "cleaned"
    \/ album.gallery_expires_at # NoDate /\ hour > album.gallery_expires_at

\* C23: a request with a token that is not the gallery_token, for an event
\* without cloud album, for a cleaned event or after gallery_expires_at gets
\* no download URL, cached archive or not; for a cleaned event the error is
\* the precondition error.
C23_NoUrlWhenForbidden ==
    [][(ZipReturns /\ zipLast'.found /\ ZipForbidden(zipLast'.token))
          => /\ ~zipLast'.success
             /\ zipLast'.url = NoUrl
             /\ (zipLast'.token = album.gallery_token /\ album.has_cloud_album /\ album.status = "cleaned")
                   => zipLast'.code \in PreconditionCodes]_vars

\* The archive exists and the request for the cleaned event, with the right
\* token, was refused.
C23_Witness ==
    /\ albumZip.exists
    /\ album.status = "cleaned"
    /\ zipLast.found
    /\ zipLast.token = album.gallery_token
    /\ zipLast.message = "Gallery has been cleaned up"
    /\ zipLast.url = NoUrl

\* The archive object exists and is younger than 24 hours.
FreshZip == albumZip.exists /\ hour - albumZip.createdAt < CacheHours

\* The request that returns in this step passes the validation.
ZipValid == ZipFirstFailing(album, zipLast'.found, zipLast'.token, hour) = "ok"

C25_StaleZipRebuilt ==
    [][(ZipReturns /\ ZipValid /\ ~FreshZip /\ zipLast'.success)
          => /\ zipLast'.wrote
             /\ albumZip'.exists
             /\ albumZip'.createdAt = hour
             /\ albumZip'.photos # {}
             /\ albumZip'.photos \subseteq cloudCaptures
             /\ zipLast'.url = [createdAt |-> hour, photos |-> albumZip'.photos]
             /\ zipLast'.expiresAt = hour + UrlHours]_vars

\* C26: a valid request for an event with no cloud-uploaded capture and no
\* archive younger than 24 hours gets the not-found error, and it writes
\* nothing to the storage.
C26_NoCapturesNotFound ==
    [][(ZipReturns /\ ZipValid /\ cloudCaptures = {} /\ ~FreshZip)
          => /\ ~zipLast'.success
             /\ zipLast'.code \in NotFoundCodes
             /\ zipLast'.url = NoUrl
             /\ ~zipLast'.wrote
             /\ albumZip' = albumZip]_vars

\* A valid request for the event with cloud album and no capture was answered
\* with the not-found error, and there is no archive.
C26_Witness ==
    /\ zipLast.found
    /\ zipLast.token = album.gallery_token
    /\ album.has_cloud_album
    /\ album.status # "cleaned"
    /\ cloudCaptures = {}
    /\ zipLast.message = "No photos found in cloud album"
    /\ zipLast.code \in NotFoundCodes
    /\ ~albumZip.exists

\* The upload of the archive failed.
UploadFailed(resp) == resp.message = "Failed to create ZIP archive" /\ resp.code = "500"

\* C27: the per-photo loop skips the photos whose bytes cannot be fetched:
\* if it could fetch at least one photo the request succeeds (unless the
\* upload of the archive fails) with the archive of the photos fetched, and if
\* it could fetch none the request gets the not-found error and the archive
\* object is neither created nor overwritten.
C27_UnfetchedSkipped ==
    [][(ZipReturns /\ zipLast'.fetched \cup zipLast'.unfetched # {})
          => IF zipLast'.fetched = {}
             THEN /\ ~zipLast'.success
                  /\ zipLast'.code \in NotFoundCodes
                  /\ ~zipLast'.wrote
                  /\ albumZip' = albumZip
             ELSE ~UploadFailed(zipLast')
                     => /\ zipLast'.success
                        /\ albumZip' = [exists |-> TRUE, createdAt |-> hour, photos |-> zipLast'.fetched]]_vars

\* ------------------------------------------------------- the camera page
\* handleCapture of the camera page, one action per await of the handler.
\* page.event is the page's copy of the event, device the number of photos
\* saved to the device, bucket the capture numbers uploaded to the cloud album.
MaxShots == 3

\* What the page can have loaded (getEventBySlug).
PageEvents ==
    [status : {"draft", "active", "expired"}, inWindow : BOOLEAN, captureCount : 0..MaxPhotoLimit, photoLimit : 1..MaxPhotoLimit, hasCloudAlbum : BOOLEAN]

pageIsEventActive(ev) == ev.status = "active" /\ ev.inWindow

pageHasReachedLimit(ev) == ev.captureCount >= ev.photoLimit

\* What reserveCapture can return: a reserved slot, or a rejection.
Reservations ==
    [success : {TRUE}, captureNumber : 1..MaxPhotoLimit, status : {"active", "expired"}]
       \cup [success : {FALSE}, captureNumber : {0}, status : {"none", "draft", "active", "expired", "cleaned"}]

\* The handler leaves through its catch block.
Caught == [page EXCEPT !.pc = "idle", !.error = TRUE]

\* The end date of the event passes.
WindowCloses ==
    /\ page.pc = "idle"
    /\ page.event.inWindow
    /\ page' = [page EXCEPT !.event.inWindow = FALSE]
    /\ UNCHANGED <<backend, clock, event, inv, last, cleanup, issued, batchVars, zipVars, flightVars, hookVars, device, bucket>>

\* The guards of handleCapture, on the page's copy of the event.
StartCapture ==
    /\ page.pc = "idle"
    /\ device < MaxShots
    /\ IF ~pageIsEventActive(page.event) \/ pageHasReachedLimit(page.event)
       THEN page' = [page EXCEPT !.error = TRUE]
       ELSE page' = [page EXCEPT !.pc = "capturing", !.error = FALSE, !.reservation = NoReservation]
    /\ UNCHANGED <<backend, clock, event, inv, last, cleanup, issued, batchVars, zipVars, flightVars, hookVars, device, bucket>>

\* Countdown, camera.capturePhoto, compression, frame overlay and
\* downloadToDevice.
CaptureAndSave(captured) ==
    /\ page.pc = "capturing"
    /\ IF captured
       THEN /\ device' = device + 1
            /\ page' = [page EXCEPT !.pc = "reserving"]
       ELSE /\ page' = Caught
            /\ UNCHANGED device
    /\ UNCHANGED <<backend, clock, event, inv, last, cleanup, issued, batchVars, zipVars, flightVars, hookVars, bucket>>

\* The upload follows a reservation of an event with cloud album.
ShouldUpload_NoEntitlement(ev, reservation) == reservation.captureNumber # 0

ShouldUpload(ev, reservation) == ev.hasCloudAlbum /\ reservation.captureNumber # 0

\* Update event state.
Reserved(ev, reservation) == [ev EXCEPT !.captureCount = reservation.captureNumber, !.status = reservation.status]

\* reserveCapture returns or throws.
ReserveReturns(thrown, reservation) ==
    /\ page.pc = "reserving"
    /\ IF thrown
       THEN page' = Caught
       ELSE IF ~reservation.success
       THEN page' = [Caught EXCEPT !.reservation = reservation]
       ELSE IF ShouldUpload(page.event, reservation)
       THEN page' = [page EXCEPT !.pc = "uploading", !.reservation = reservation]
       ELSE page' = [page EXCEPT !.pc = "idle", !.reservation = reservation, !.event = Reserved(page.event, reservation)]
    /\ UNCHANGED <<backend, clock, event, inv, last, cleanup, issued, batchVars, zipVars, flightVars, hookVars, device, bucket>>

\* uploadPhoto returns or throws.
UploadReturns(uploaded) ==
    /\ page.pc = "uploading"
    /\ IF uploaded
       THEN /\ bucket' = bucket \cup {page.reservation.captureNumber}
            /\ page' = [page EXCEPT !.pc = "idle", !.event = Reserved(page.event, page.reservation)]
       ELSE /\ page' = Caught
            /\ UNCHANGED bucket
    /\ UNCHANGED <<backend, clock, event, inv, last, cleanup, issued, batchVars, zipVars, flightVars, hookVars, device>>

InitCamera ==
    /\ backend \in Backends
    /\ clock = 0
    /\ event = NullEvent
    /\ inv = [p \in Clients |-> IdleInv]
    /\ last = NoLast
    /\ cleanup = IdleCleanup
    /\ issued = [n \in 1..MaxPhotoLimit |-> 0]
    /\ EmptyStore
    /\ NoAlbum
    /\ NoFlight
    /\ NoHooks
    /\ \E ev \in PageEvents : page = [IdlePage EXCEPT !.event = ev]
    /\ device = 0
    /\ bucket = {}

NextCamera ==
    \/ WindowCloses
    \/ StartCapture
    \/ \E captured \in BOOLEAN : CaptureAndSave(captured)
    \/ \E thrown \in BOOLEAN, reservation \in Reservations : ReserveReturns(thrown, reservation)
    \/ \E uploaded \in BOOLEAN : UploadReturns(uploaded)

SpecCamera == InitCamera /\ [][NextCamera]_vars

\* C28: a photo is saved to the device only after reserveCapture returned
\* success for it; a rejected reservation leaves no photo saved.
C28_SavedAfterReserved ==
    [][device' # device => page.reservation.success]_vars

\* C29: a photo is uploaded only after reserveCapture returned success with a
\* capture number, under that number, and only when the event has the cloud
\* album; a handler whose reservation failed uploads nothing.
C29_UploadAfterReserved ==
    [][bucket' # bucket
          => /\ page.reservation.success
             /\ page.reservation.captureNumber >= 1
             /\ page.event.hasCloudAlbum
             /\ bucket' = bucket \cup {page.reservation.captureNumber}]_vars

\* One photo was uploaded after its reservation, and a later handler whose
\* reservation was rejected has ended without uploading.
C29_Witness ==
    /\ bucket # {}
    /\ device > Cardinality(bucket)
    /\ page.pc = "idle"
    /\ page.error
    /\ ~page.reservation.success
    /\ page.reservation.status # "none"

\* ------------------------------ one sequential reservation, both backends
\* What one invocation that runs alone and whose requests do not fail
\* returns and leaves in the store.
Outcome(success, captureNumber, row) == [success |-> success, captureNumber |-> captureNumber, event |-> row]

\* reserve-capture: the validation chain, the auto-expiry of an ended event,
\* the conditional update.
sbReserveOutcome(ev, now, found) ==
    LET v == sbValidation(ev, now)
    IN  IF ~found THEN Outcome(FALSE, 0, ev)
        ELSE IF v = "Event has ended"
        THEN Outcome(FALSE, 0, [ev EXCEPT !.status = "expired", !.gallery_expires_at = now + GalleryRetentionDays])
        ELSE IF v # "ok" THEN Outcome(FALSE, 0, ev)
        ELSE Outcome(TRUE, ev.capture_count + 1, sbUpdateData(ev, ev, now))

\* reserveCapture: validateCapture, then the transaction's update.
fbReserveOutcome(ev, now, found) ==
    LET v == validateCapture(ev, now)
    IN  IF ~found \/ v # "ok" THEN Outcome(FALSE, 0, ev)
        ELSE Outcome(TRUE, ev.capture_count + 1, fbExpireIfDue([ev EXCEPT !.capture_count = @ + 1, !.totalCaptures = @ + 1], now))

\* C30: on every event state and at every time, one reservation that runs
\* alone gives the same success flag and captureNumber and leaves the same
\* status, counters and gallery_expires_at with the Supabase handler as with
\* the Firebase one.
C30_SameReservation ==
    \A found \in BOOLEAN : sbReserveOutcome(event, clock, found) = fbReserveOutcome(event, clock, found)

\* C31: once the status of the event is expired or cleaned, no step of a
\* reservation, of confirmCapture, of the auto-expiry or of a cleanup
\* changes its capture_count.
C31_CountFrozenAfterExpiry ==
    [][event.status \in {"expired", "cleaned"} => event'.capture_count = event.capture_count]_vars

\* The failures of a reservation that are answered without a write.
RejectedUnchanged == {"Event not found", "Event is not active", "Event has not started yet", "Photo limit reached", "Concurrent update conflict, please retry"}

\* C32: the step in which a reservation returns "not found", "not active",
\* "not started", "limit reached" or "conflict" leaves every field of the
\* event row as it was.
C32_RejectionLeavesRow ==
    [][(last' # last /\ last'.op = "reserve" /\ ~last'.resp.success /\ last'.resp.message \in RejectedUnchanged)
          => event' = event]_vars

\* A reservation of the active event with a capture taken was answered with
\* the conflict.
C32_Witness ==
    /\ last.op = "reserve"
    /\ ~last.resp.success
    /\ last.resp.message = "Concurrent update conflict, please retry"
    /\ event.status = "active"
    /\ event.capture_count >= 1

\* ------------------------------- requests in flight across the cleanup
\* The ZIP generation and the photo upload as the requests they consist of,
\* interleaved with the scheduled cleanup of the event.  The storage requests
\* of the cleanup succeed here; their failures are in SpecCleanup.

\* reserveCapture gave the camera page the next capture number and
\* uploadPhoto starts.
UploadStarts ==
    /\ album.status = "active"
    /\ album.has_cloud_album
    /\ Cardinality(flight.uploads \cup objects) < MaxUploads
    /\ flight' = [flight EXCEPT !.uploads = @ \cup {Cardinality(flight.uploads \cup objects) + 1}]
    /\ UNCHANGED <<backend, clock, event, inv, last, cleanup, issued, batchVars, zipVars, cameraVars, hookVars, objects>>

\* uploadPhoto's upload completes: the object is in the storage.  The upload
\* reads nothing of the event.
UploadCompletes(n) ==
    /\ n \in flight.uploads
    /\ flight' = [flight EXCEPT !.uploads = @ \ {n}]
    /\ objects' = objects \cup {n}
    /\ UNCHANGED <<backend, clock, event, inv, last, cleanup, issued, batchVars, zipVars, cameraVars, hookVars>>

\* The checks of a ZIP generation request with the right token.
ZipChecks ==
    IF backend = "firebase"
    THEN fbZipValidation(album, TRUE, album.gallery_token, hour)
    ELSE sbZipValidation(album, TRUE, album.gallery_token, hour)

ZipInCache == IF backend = "firebase" THEN fbZipCached(albumZip, hour) ELSE sbZipCached(albumZip, hour)

\* A ZIP generation passes its checks, finds no archive to serve and reads
\* the photos in the storage into the archive.
ZipStarts ==
    /\ flight.zip = "idle"
    /\ ZipChecks = ZipOk
    /\ ~ZipInCache
    /\ objects # {}
    /\ flight' = [flight EXCEPT !.zip = "building", !.photos = objects]
    /\ UNCHANGED <<backend, clock, event, inv, last, cleanup, issued, batchVars, zipVars, cameraVars, hookVars, objects>>

\* The archive is written: upload with upsert, or the write stream
\* finishes.  The status of the event is not read again.
ZipCompletes ==
    /\ flight.zip = "building"
    /\ flight' = [flight EXCEPT !.zip = "idle", !.photos = {}]
    /\ albumZip' = [exists |-> TRUE, createdAt |-> hour, photos |-> flight.photos]
    /\ UNCHANGED <<backend, clock, event, inv, last, cleanup, issued, batchVars, hour, album, cloudCaptures, zipLast, cameraVars, hookVars, objects>>

\* The scheduled cleanup's iteration for the event: the photos and the
\* archive are removed, then the event is marked cleaned.
FlightCleanup ==
    /\ album.status = "expired"
    /\ album.gallery_expires_at < hour
    /\ objects' = {}
    /\ albumZip' = NoZip
    /\ album' = [album EXCEPT !.status = "cleaned"]
    /\ UNCHANGED <<backend, clock, event, inv, last, cleanup, issued, batchVars, hour, cloudCaptures, zipLast, cameraVars, hookVars, flight>>

NextFlight ==
    \/ ZipTick
    \/ AlbumExpires
    \/ UploadStarts
    \/ \E n \in 1..MaxUploads : UploadCompletes(n)
    \/ ZipStarts
    \/ ZipCompletes
    \/ FlightCleanup

SpecFlight == InitZip /\ [][NextFlight]_vars

\* C33: once the event is cleaned, no archive object and no photo object of
\* it is in the storage.
C33_CleanedStorageEmpty ==
    album.status = "cleaned" => (~albumZip.exists /\ objects = {})

\* C34: in every summary record of cleanup_logs, eventsProcessed is the sum
\* of eventsCleanedSuccess and eventsCleanedFailed.
C34_ProcessedIsSuccessPlusFailed ==
    \A s \in cleanup_logs : s.eventsProcessed = s.eventsCleanedSuccess + s.eventsCleanedFailed

\* ------------------------------------------- the capture button's guard
\* The camera page of an active event below its limit, with the camera
\* streaming.  ui.capturing is the state set by setCapturing, ui.rendered the
\* value of capturing in the last render, which the button's disabled
\* attribute and the handleCapture closure of that render read.
MaxClicks == 3

InProgress == {f \in DOMAIN ui.flows : ui.flows[f] # "done"}

\* React renders the page with the current state.
Rerender ==
    /\ ui.rendered # ui.capturing
    /\ ui' = [ui EXCEPT !.rendered = ui.capturing]
    /\ UNCHANGED <<backend, clock, event, inv, last, cleanup, issued, batchVars, zipVars, cameraVars, flightVars, cam, gallery>>

\* A click on the capture button: ignored if the button is rendered
\* disabled or the handler reads capturing as true, else setCapturing(true)
\* and the flow starts with its countdown.
Click ==
    /\ Len(ui.flows) < MaxClicks
    /\ ~ui.rendered
    /\ ui' = [ui EXCEPT !.capturing = TRUE, !.flows = Append(@, "countdown")]
    /\ UNCHANGED <<backend, clock, event, inv, last, cleanup, issued, batchVars, zipVars, cameraVars, flightVars, cam, gallery>>

\* The flow has captured and saved the photo and calls reserveCapture.
FlowReserves(f) ==
    /\ f \in DOMAIN ui.flows
    /\ ui.flows[f] = "countdown"
    /\ ui' = [ui EXCEPT !.flows[f] = "reserving", !.reserveCalls = @ + 1]
    /\ UNCHANGED <<backend, clock, event, inv, last, cleanup, issued, batchVars, zipVars, cameraVars, flightVars, cam, gallery>>

\* The flow ends, by its last statement or its catch block: finally
\* setCapturing(false).
FlowEnds(f) ==
    /\ f \in DOMAIN ui.flows
    /\ ui.flows[f] # "done"
    /\ ui' = [ui EXCEPT !.flows[f] = "done", !.capturing = FALSE]
    /\ UNCHANGED <<backend, clock, event, inv, last, cleanup, issued, batchVars, zipVars, cameraVars, flightVars, cam, gallery>>

InitClicks ==
    /\ backend \in Backends
    /\ clock = 0
    /\ event = NullEvent
    /\ inv = [p \in Clients |-> IdleInv]
    /\ last = NoLast
    /\ cleanup = IdleCleanup
    /\ issued = [n \in 1..MaxPhotoLimit |-> 0]
    /\ EmptyStore
    /\ NoAlbum
    /\ NoCamera
    /\ NoFlight
    /\ NoHooks

NextClicks ==
    \/ Rerender
    \/ Click
    \/ \E f \in 1..MaxClicks : FlowReserves(f)
    \/ \E f \in 1..MaxClicks : FlowEnds(f)

SpecClicks == InitClicks /\ [][NextClicks]_vars

\* C35: at most one capture flow of the page is in progress, so a click
\* while a flow is in progress, also one handled before the page is rendered
\* again, starts no flow and leads to no reserveCapture call.
C35_OneCaptureFlow ==
    Cardinality(InProgress) <= 1

\* ------------------------------------------------------------ useCamera
\* The MediaStreams are numbered in the order of the getUserMedia calls.
\* cam.stream is the state set by setStream; cam.cleanupStream is the value of
\* stream in the render whose effect ran last, which that effect's cleanup
\* closes over; cam.pending are the getUserMedia calls not yet settled and
\* cam.live the streams with tracks that are not stopped.
MaxStreams == 3

\* stream.getTracks().forEach(track => track.stop()), if (stream).
Stopped(live, stream) == live \ {stream}

\* startCamera(mode) of a render with stream: the stream is stopped and
\* getUserMedia is called.
startCamera(c, stream) ==
    [c EXCEPT !.live = Stopped(c.live, stream), !.pending = @ \cup {c.requested + 1}, !.requested = @ + 1]

\* The component mounts: the effect calls startCamera in a render with
\* stream = null.
Mount ==
    /\ ~cam.mounted
    /\ cam.requested = 0
    /\ cam' = [startCamera(cam, NoStream) EXCEPT !.mounted = TRUE, !.cleanupStream = NoStream]
    /\ UNCHANGED <<backend, clock, event, inv, last, cleanup, issued, batchVars, zipVars, cameraVars, flightVars, ui, gallery>>

\* getUserMedia resolves with stream r: setStream(r), which has no effect
\* once the component is unmounted.
GetUserMediaResolves(r) ==
    /\ r \in cam.pending
    /\ cam' = [cam EXCEPT !.pending = @ \ {r}, !.live = @ \cup {r}, !.stream = IF cam.mounted THEN r ELSE @]
    /\ UNCHANGED <<backend, clock, event, inv, last, cleanup, issued, batchVars, zipVars, cameraVars, flightVars, ui, gallery>>

\* getUserMedia rejects: setError.
GetUserMediaRejects(r) ==
    /\ r \in cam.pending
    /\ cam' = [cam EXCEPT !.pending = @ \ {r}]
    /\ UNCHANGED <<backend, clock, event, inv, last, cleanup, issued, batchVars, zipVars, cameraVars, flightVars, ui, gallery>>

\* switchCamera: facingMode changes, the page renders, the cleanup of the
\* previous effect run stops the stream it closed over and the effect calls
\* startCamera of the new render.
switchCamera ==
    /\ cam.mounted
    /\ cam.requested < MaxStreams
    /\ cam' = [startCamera([cam EXCEPT !.live = Stopped(@, cam.cleanupStream)], cam.stream) EXCEPT !.cleanupStream = cam.stream]
    /\ UNCHANGED <<backend, clock, event, inv, last, cleanup, issued, batchVars, zipVars, cameraVars, flightVars, ui, gallery>>

stopCamera ==
    /\ cam.mounted
    /\ cam.stream # NoStream
    /\ cam' = [cam EXCEPT !.live = Stopped(@, cam.stream), !.stream = NoStream]
    /\ UNCHANGED <<backend, clock, event, inv, last, cleanup, issued, batchVars, zipVars, cameraVars, flightVars, ui, gallery>>

\* The component unmounts: the cleanup of the last effect run.
Unmount ==
    /\ cam.mounted
    /\ cam' = [cam EXCEPT !.mounted = FALSE, !.live = Stopped(@, cam.cleanupStream)]
    /\ UNCHANGED <<backend, clock, event, inv, last, cleanup, issued, batchVars, zipVars, cameraVars, flightVars, ui, gallery>>

NextCam ==
    \/ Mount
    \/ \E r \in 1..MaxStreams : GetUserMediaResolves(r)
    \/ \E r \in 1..MaxStreams : GetUserMediaRejects(r)
    \/ switchCamera
    \/ stopCamera
    \/ Unmount

SpecCam == InitClicks /\ [][NextCam]_vars

\* C36: at most one MediaStream acquired by the hook has live tracks.
C36_OneLiveStream ==
    Cardinality(cam.live) <= 1

\* C37: after the component has unmounted, every MediaStream the hook
\* acquired has its tracks stopped.
C37_StoppedAfterUnmount ==
    (~cam.mounted /\ cam.requested > 0 /\ cam.pending = {}) => cam.live = {}

\* ----------------------------------------------------------- useGallery
\* The lightbox of a gallery of totalImages photos.
MaxImages == 13

selectImage(i) ==
    /\ i \in 0..(gallery.totalImages - 1)
    /\ gallery' = [gallery EXCEPT !.selectedImage = i]
    /\ UNCHANGED <<backend, clock, event, inv, last, cleanup, issued, batchVars, zipVars, cameraVars, flightVars, ui, cam>>

closeImage ==
    /\ gallery' = [gallery EXCEPT !.selectedImage = NoImage]
    /\ UNCHANGED <<backend, clock, event, inv, last, cleanup, issued, batchVars, zipVars, cameraVars, flightVars, ui, cam>>

\* nextImage without the wrap to the first image.
Following_NoWrap(prev, totalImages) == IF prev = NoImage THEN NoImage ELSE prev + 1

\* The updater of nextImage.
Following(prev, totalImages) == IF prev = NoImage THEN NoImage ELSE (prev + 1) % totalImages

\* The updater of prevImage.
Preceding(prev, totalImages) == IF prev = NoImage THEN NoImage ELSE IF prev = 0 THEN totalImages - 1 ELSE prev - 1

nextImage ==
    /\ gallery' = [gallery EXCEPT !.selectedImage = Following(@, gallery.totalImages)]
    /\ UNCHANGED <<backend, clock, event, inv, last, cleanup, issued, batchVars, zipVars, cameraVars, flightVars, ui, cam>>

prevImage ==
    /\ gallery' = [gallery EXCEPT !.selectedImage = Preceding(@, gallery.totalImages)]
    /\ UNCHANGED <<backend, clock, event, inv, last, cleanup, issued, batchVars, zipVars, cameraVars, flightVars, ui, cam>>

InitGallery ==
    /\ backend \in Backends
    /\ clock = 0
    /\ event = NullEvent
    /\ inv = [p \in Clients |-> IdleInv]
    /\ last = NoLast
    /\ cleanup = IdleCleanup
    /\ issued = [n \in 1..MaxPhotoLimit |-> 0]
    /\ EmptyStore
    /\ NoAlbum
    /\ NoCamera
    /\ NoFlight
    /\ ui = NoClicks
    /\ cam = NoCam
    /\ \E totalImages \in 1..MaxImages : gallery = [totalImages |-> totalImages, selectedImage |-> NoImage]

NextGallery ==
    \/ \E i \in 0..(MaxImages - 1) : selectImage(i)
    \/ closeImage
    \/ nextImage
    \/ prevImage

SpecGallery == InitGallery /\ [][NextGallery]_vars

\* C38: selectedImage is always null or an index of the gallery; nextImage
\* from the last index gives 0, prevImage from 0 gives the last index, and
\* both leave null as it is.
C38_SelectionInRange ==
    LET n == gallery.totalImages
    IN  /\ gallery.selectedImage = NoImage \/ gallery.selectedImage \in 0..(n - 1)
        /\ Following(n - 1, n) = 0
        /\ Preceding(0, n) = n - 1
        /\ Following(NoImage, n) = NoImage
        /\ Preceding(NoImage, n) = NoImage

\* The last image of a gallery of more than one image is selected.
C38_Witness ==
    /\ gallery.totalImages > 1
    /\ gallery.selectedImage = gallery.totalImages - 1

====
